---------------------------- MODULE Spec2Model ----------------------------
(***************************************************************************)
(* A model of git-to-prompt: the repository packer RepomixPython           *)
(* (src/src/git_to_prompt/repomixpy.py), the repository lookup get_repo    *)
(* (src/src/git_to_prompt/git.py) and the log command                      *)
(* (src/src/git_to_prompt/cli.py).                                         *)
(*                                                                         *)
(* Paths, patterns and output lines are strings; a string is read one      *)
(* character at a time with SubSeq, and compared by code point as Python   *)
(* compares str values.                                                    *)
(***************************************************************************)
EXTENDS Integers, Sequences, FiniteSets, TLC

(***************************************************************************)
(* Bounds of the model.                                                    *)
(***************************************************************************)
\* the working tree holds at most this many files
MaxFiles == 3
\* the version-control query reports ignored, or fails, for at most this
\* many paths together
MaxVcsAnswers == 1
\* at most this many files of the tree are not plain readable text
MaxSpecialFiles == 1
\* get_repo: at most this many directories hold a repository
MaxRepos == 1
\* log: at most this many path arguments
MaxPaths == 2

(***************************************************************************)
(* Characters and strings.                                                 *)
(***************************************************************************)
\* The printable ASCII characters in code-point order: 32 (space) to 95, and
\* 97 to 126 (96, the backquote, is in no path or pattern of the model).
AsciiLow ==
  " !\"#$%&'()*+,-./0123456789:;<=>?@ABCDEFGHIJKLMNOPQRSTUVWXYZ[\\]^_"
AsciiHigh == "abcdefghijklmnopqrstuvwxyz{|}~"

Char(s, i) == SubSeq(s, i, i)

\* ord(c) of a one-character string
Ord(c) ==
  IF \E i \in 1..Len(AsciiLow) : Char(AsciiLow, i) = c
    THEN 31 + (CHOOSE i \in 1..Len(AsciiLow) : Char(AsciiLow, i) = c)
    ELSE 96 + (CHOOSE i \in 1..Len(AsciiHigh) : Char(AsciiHigh, i) = c)

MinOf(S) == CHOOSE x \in S : \A y \in S : x <= y

\* a < b on Python str values: by code point at the first difference,
\* a proper prefix first
StrLess(a, b) ==
  LET n == IF Len(a) < Len(b) THEN Len(a) ELSE Len(b)
      diff == {i \in 1..n : Char(a, i) # Char(b, i)}
  IN  IF diff = {} THEN Len(a) < Len(b)
      ELSE Ord(Char(a, MinOf(diff))) < Ord(Char(b, MinOf(diff)))

\* sorted left out: the list as it is
sorted_missing(xs) == xs

\* sorted(xs) of a list of distinct strings
sorted(xs) == SortSeq(xs, StrLess)

\* s.startswith(p)
StartsWith(s, p) == Len(p) <= Len(s) /\ SubSeq(s, 1, Len(p)) = p

\* the positions of the character c in s
Positions(s, c) == {i \in 1..Len(s) : Char(s, i) = c}

MaxOf(S) == CHOOSE x \in S : \A y \in S : x >= y

\* s.split(sep) for a one-character separator
RECURSIVE Split(_, _)
Split(s, sep) ==
  IF Positions(s, sep) = {} THEN <<s>>
  ELSE LET i == MinOf(Positions(s, sep))
       IN  <<SubSeq(s, 1, i - 1)>> \o Split(SubSeq(s, i + 1, Len(s)), sep)

\* sep.join(parts)
RECURSIVE Join(_, _)
Join(parts, sep) ==
  IF parts = <<>> THEN ""
  ELSE IF Len(parts) = 1 THEN parts[1]
  ELSE parts[1] \o sep \o Join(Tail(parts), sep)

\* the elements of a sequence
Range(f) == {f[i] : i \in DOMAIN f}

\* the sequences without repetition that enumerate the set S
Orders(S) ==
  {o \in [1..Cardinality(S) -> S] : \A i, j \in 1..Cardinality(S) : i # j => o[i] # o[j]}

\* the subsets of S with at most n elements
SubsetsUpTo(S, n) == {T \in SUBSET S : Cardinality(T) <= n}

(***************************************************************************)
(* fnmatch.fnmatch as _should_ignore uses it: on POSIX normcase is the     *)
(* identity, and the pattern is translated to a regular expression that    *)
(* must match the whole name: a star matches any run of characters, the    *)
(* path separator included, a question mark any one character, [seq] a     *)
(* character of seq, and anything else itself.                             *)
(***************************************************************************)
\* the index of the ']' closing the class opened at pat[i] = '[', 0 if none
ClassEnd(pat, i) ==
  LET n  == Len(pat)
      j0 == i + 1
      j1 == IF j0 <= n /\ Char(pat, j0) = "!" THEN j0 + 1 ELSE j0
      j2 == IF j1 <= n /\ Char(pat, j1) = "]" THEN j1 + 1 ELSE j1
      close == {j \in j2..n : Char(pat, j) = "]"}
  IN  IF close = {} THEN 0 ELSE MinOf(close)

\* whether the character c is in the class whose text (between the
\* brackets) is stuff
InClass(c, stuff) ==
  LET neg  == Char(stuff, 1) = "!"
      body == IF neg THEN SubSeq(stuff, 2, Len(stuff)) ELSE stuff
      n    == Len(body)
      inRange(p) == /\ p + 2 <= n
                    /\ Char(body, p + 1) = "-"
                    /\ Ord(Char(body, p)) <= Ord(c)
                    /\ Ord(c) <= Ord(Char(body, p + 2))
      hit  == \E p \in 1..n : Char(body, p) = c \/ inRange(p)
  IN  IF neg THEN ~hit ELSE hit

RECURSIVE GlobMatch(_, _, _, _)
GlobMatch(name, pat, i, j) ==
  IF i > Len(pat) THEN j > Len(name)
  ELSE LET c == Char(pat, i)
       IN  IF c = "*"
             THEN \/ GlobMatch(name, pat, i + 1, j)
                  \/ j <= Len(name) /\ GlobMatch(name, pat, i, j + 1)
           ELSE IF c = "?"
             THEN j <= Len(name) /\ GlobMatch(name, pat, i + 1, j + 1)
           ELSE IF c = "[" /\ ClassEnd(pat, i) # 0
             THEN /\ j <= Len(name)
                  /\ InClass(Char(name, j), SubSeq(pat, i + 1, ClassEnd(pat, i) - 1))
                  /\ GlobMatch(name, pat, ClassEnd(pat, i) + 1, j + 1)
           ELSE /\ j <= Len(name)
                /\ Char(name, j) = c
                /\ GlobMatch(name, pat, i + 1, j + 1)

\* the matching of a glob whose star and question mark stop at the path
\* separator
RECURSIVE SegmentMatch(_, _, _, _)
SegmentMatch(name, pat, i, j) ==
  IF i > Len(pat) THEN j > Len(name)
  ELSE LET c == Char(pat, i)
       IN  IF c = "*"
             THEN \/ SegmentMatch(name, pat, i + 1, j)
                  \/ /\ j <= Len(name)
                     /\ Char(name, j) # "/"
                     /\ SegmentMatch(name, pat, i, j + 1)
           ELSE IF c = "?"
             THEN /\ j <= Len(name)
                  /\ Char(name, j) # "/"
                  /\ SegmentMatch(name, pat, i + 1, j + 1)
           ELSE IF c = "[" /\ ClassEnd(pat, i) # 0
             THEN /\ j <= Len(name)
                  /\ InClass(Char(name, j), SubSeq(pat, i + 1, ClassEnd(pat, i) - 1))
                  /\ SegmentMatch(name, pat, ClassEnd(pat, i) + 1, j + 1)
           ELSE /\ j <= Len(name)
                /\ Char(name, j) = c
                /\ SegmentMatch(name, pat, i + 1, j + 1)

\* fnmatchcase with a star that stays within one path segment
fnmatchcase_within_segment(name, pat) == SegmentMatch(name, pat, 1, 1)

fnmatchcase(name, pat) == GlobMatch(name, pat, 1, 1)

(***************************************************************************)
(* RepomixPython: the constants of __init__ and _is_binary_file.           *)
(***************************************************************************)
\* self.default_ignore_patterns
default_ignore_patterns == <<
  ".git/**", ".hg/**", ".hgignore", ".svn/**", "**/node_modules/**",
  "**/bower_components/**", "**/jspm_packages/**", "vendor/**",
  "**/.bundle/**", "**/.gradle/**", "target/**", "logs/**", "**/*.log",
  "**/npm-debug.log*", "**/yarn-debug.log*", "**/yarn-error.log*",
  "pids/**", "*.pid", "*.seed", "*.pid.lock", "lib-cov/**", "coverage/**",
  ".nyc_output/**", ".grunt/**", ".lock-wscript", "build/Release/**",
  "typings/**", "**/.npm/**", ".eslintcache", ".rollup.cache/**",
  ".webpack.cache/**", ".parcel-cache/**", ".sass-cache/**", "*.cache",
  ".node_repl_history", "*.tgz", "**/.yarn/**", "**/.yarn-integrity",
  ".env", ".next/**", ".nuxt/**", ".vuepress/dist/**", ".serverless/**",
  ".fusebox/**", ".dynamodb/**", "dist/**", "**/.DS_Store", "**/Thumbs.db",
  ".idea/**", ".vscode/**", "**/*.swp", "**/*.swo", "**/*.swn", "**/*.bak",
  "build/**", "out/**", "tmp/**", "temp/**", "**/repomix-output.*",
  "**/repopack-output.*", "**/package-lock.json", "**/yarn-error.log",
  "**/yarn.lock", "**/pnpm-lock.yaml", "**/bun.lockb", "**/__pycache__/**",
  "**/*.py[cod]", "**/venv/**", "**/.venv/**", "**/.pytest_cache/**",
  "**/.mypy_cache/**", "**/.ipynb_checkpoints/**", "**/Pipfile.lock",
  "**/poetry.lock", "**/Cargo.lock", "**/Cargo.toml.orig", "**/target/**",
  "**/*.rs.bk", "**/composer.lock", "**/Gemfile.lock", "**/go.sum",
  "**/mix.lock", "**/stack.yaml.lock", "**/cabal.project.freeze"
>>

\* binary_extensions of _is_binary_file
binary_extensions == {
  ".jpg", ".jpeg", ".png", ".gif", ".bmp", ".ico", ".webp", ".mp3", ".wav",
  ".ogg", ".flac", ".mp4", ".avi", ".mov", ".wmv", ".zip", ".tar", ".gz",
  ".bz2", ".7z", ".rar", ".exe", ".dll", ".so", ".dylib", ".pyc", ".pyd",
  ".pyo", ".pdf", ".doc", ".docx", ".xls", ".xlsx", ".ppt", ".pptx"
}

\* the number of bytes _is_binary_file reads to look for a NUL byte
SniffBytes == 1024

\* the name of the ignore file __init__ parses
RepomixIgnoreName == ".repomixignore"

(***************************************************************************)
(* The working tree.  repo.working_dir is RootDir; a tree is a set of      *)
(* file paths relative to it, and its directories are the proper prefixes  *)
(* of those paths.                                                         *)
(***************************************************************************)
RootDir == "/r"

\* the files a working tree of the model may hold
Universe ==
  {"a.txt", "a/b.png", "a/y.md", "a-b/x", "node_modules/x.js",
   "a/node_modules/x.js", ".repomixignore"}

\* os.path.join(a, b) for a relative b
PathJoin(a, b) == a \o "/" \o b

\* os.path.relpath(path, self.root_dir) for root_dir and the paths below it
relpath(path) ==
  IF path = RootDir THEN "."
  ELSE SubSeq(path, Len(RootDir) + 2, Len(path))

\* the relative paths of the directories above the relative path f
AncestorsOf(f) ==
  LET parts == Split(f, "/")
  IN  {Join(SubSeq(parts, 1, k), "/") : k \in 1..(Len(parts) - 1)}

\* AncestorsOf, computed once for the files of the model
Ancestors == [f \in Universe |-> AncestorsOf(f)]

\* the relative paths of the directories of the tree t
DirsOf(t) == UNION {Ancestors[f] : f \in t}

\* the absolute paths of the files and of the directories of the tree t
AbsFiles(t) == {PathJoin(RootDir, f) : f \in t}
AbsDirs(t) == {PathJoin(RootDir, d) : d \in DirsOf(t)}

\* the directory os.walk finds the entry path in: os.path.dirname(path)
dirname_of(path) == SubSeq(path, 1, MaxOf(Positions(path, "/")) - 1)

\* dirname_of, computed once for the paths of the model
Dirname == [p \in AbsFiles(Universe) \cup AbsDirs(Universe) |-> dirname_of(p)]
dirname(path) == Dirname[path]

\* whether the path a is strictly below the directory d
Below(a, d) == StartsWith(a, d \o "/")

\* every relative path of the model, and every pattern it can be tested
\* against
AllRelPaths == Universe \cup DirsOf(Universe)

\* the lines of the ignore file, when the tree holds one
IgnoreFileLines == <<"# local rules", "", "  a-b/*  ">>

\* the caller's ignore_paths
IgnorePathsChoices == {<<>>, <<"*.md">>}

\* the patterns a later packer is given on top of those: one more entry of
\* ignore_paths, or one more line of the ignore file
MorePatterns == {"a/*", "*.txt"}

\* What a file is on disk: nulAt is the offset (from 1) of its first NUL
\* byte, 0 when it has none; sniffFails: opening or reading it fails when
\* _is_binary_file looks at it; readFails: reading it fails when pack reads
\* its text.
PlainFile == [nulAt |-> 0, sniffFails |-> FALSE, readFails |-> FALSE]

FileKinds ==
  {PlainFile,
   [nulAt |-> SniffBytes, sniffFails |-> FALSE, readFails |-> FALSE],
   [nulAt |-> SniffBytes + 1, sniffFails |-> FALSE, readFails |-> FALSE],
   [nulAt |-> 0, sniffFails |-> TRUE, readFails |-> TRUE],
   [nulAt |-> 0, sniffFails |-> FALSE, readFails |-> TRUE]}

\* str(e) of the OSError that reading the file raises
ReadErrorText(path) == "[Errno 13] Permission denied: '" \o path \o "'"

VARIABLES
  tree,                    \* the files of the working tree (relative paths)
  kind,                    \* tree -> FileKinds
  vcsIgnored,              \* relative paths git check-ignore reports ignored
  vcsRaises,               \* relative paths for which the query raises
  ignore_paths,            \* self.ignore_paths
  repomixignore_patterns,  \* self.repomixignore_patterns
  pc,                      \* where pack() is
  walkStack,               \* os.walk: the directories still to yield
  all_files,               \* _collect_files: all_files
  tested,                  \* the paths _should_ignore was called on
  ignored,                 \* those of tested it returned True for
  visited,                 \* the directories os.walk yielded
  file_paths,              \* pack: file_paths
  dir_lines,               \* the lines of dir_structure, each with its node
  output,                  \* pack: output
  idx,                     \* pack: the position of the file loop
  result,                  \* what pack() returned
  run,                     \* the number of the pack() call under way
  first_result,            \* what the first pack() call returned
  first_call,              \* dir_lines and output of the first pack() call
  cwd,                     \* log: the current working directory
  repos,                   \* the directories Repo() opens a repository at
  repo_path,               \* log: repo_path
  revision_range,          \* log: revision_range
  paths,                   \* log: paths, as the command line gives them
  pcLog,                   \* where log() is
  current_path,            \* get_repo: current_path
  repo,                    \* log: the working directory of repo
  calls                    \* the calls of get_commits, each its arguments

packVars ==
  <<tree, kind, vcsIgnored, vcsRaises, ignore_paths, repomixignore_patterns,
    pc, walkStack, all_files, tested, ignored, visited, file_paths,
    dir_lines, output, idx, result, run, first_result, first_call>>

logVars ==
  <<cwd, repos, repo_path, revision_range, paths, pcLog, current_path, repo,
    calls>>

vars == <<packVars, logVars>>

inputVars ==
  <<tree, kind, vcsIgnored, vcsRaises, ignore_paths, repomixignore_patterns>>

(***************************************************************************)
(* __init__ and _parse_ignore_file                                         *)
(***************************************************************************)
IsSpace(c) == c = " " \/ c = "\t" \/ c = "\n" \/ c = "\r"

\* str.strip()
strip(s) ==
  LET keep == {i \in 1..Len(s) : ~IsSpace(Char(s, i))}
  IN  IF keep = {} THEN "" ELSE SubSeq(s, MinOf(keep), MaxOf(keep))

\* the patterns of the ignore file of the tree t: no file, no patterns;
\* blank lines and lines starting with '#' are skipped
parse_ignore_file(t) ==
  LET wanted(line) == strip(line) # "" /\ ~StartsWith(strip(line), "#")
      lines == SelectSeq(IgnoreFileLines, wanted)
  IN  IF RepomixIgnoreName \in t
        THEN [i \in 1..Len(lines) |-> strip(lines[i])]
        ELSE <<>>

\* the lines of the ignore file as the packer read it: IgnoreFileLines and
\* the lines added to the file since
ignore_file_lines ==
  LET parsed == parse_ignore_file({RepomixIgnoreName})
  IN  IgnoreFileLines
        \o SubSeq(repomixignore_patterns, Len(parsed) + 1,
                  Len(repomixignore_patterns))

\* the text f.read() returns for the file with relative path f
FileText(f) ==
  IF f = RepomixIgnoreName THEN Join(ignore_file_lines, "\n") \o "\n"
  ELSE "contents of " \o f \o "\n"

(***************************************************************************)
(* _should_ignore                                                          *)
(***************************************************************************)
\* every pattern the model can test a path against
AllPatterns ==
  Range(default_ignore_patterns) \cup Range(parse_ignore_file({RepomixIgnoreName}))
    \cup UNION {Range(ps) : ps \in IgnorePathsChoices} \cup MorePatterns

\* fnmatchcase, computed once for every path and pattern of the model
FnmatchTable ==
  [name \in AllRelPaths |-> {pat \in AllPatterns : fnmatchcase(name, pat)}]

\* fnmatch.fnmatch(name, pat)
fnmatch(name, pat) == pat \in FnmatchTable[name]

\* whether some pattern of the list patterns matches rel_path
AnyMatch(rel_path, patterns) ==
  \E k \in 1..Len(patterns) : fnmatch(rel_path, patterns[k])

\* the paths a default pattern matches, computed once
DefaultMatched == {name \in AllRelPaths : AnyMatch(name, default_ignore_patterns)}

\* the loop over a list that leaves out self.ignore_paths
MatchesPattern_no_overrides(rel_path) ==
  \/ rel_path \in DefaultMatched
  \/ AnyMatch(rel_path, repomixignore_patterns)

\* the loop over all_patterns = self.default_ignore_patterns
\* + self.repomixignore_patterns + self.ignore_paths: some pattern matches
MatchesPattern(rel_path) ==
  \/ rel_path \in DefaultMatched
  \/ AnyMatch(rel_path, repomixignore_patterns)
  \/ AnyMatch(rel_path, ignore_paths)

\* os.path.exists and os.path.isdir on the unchanged tree
isdir(path) == path = RootDir \/ relpath(path) \in DirsOf(tree)
exists(path) == relpath(path) \in tree \/ isdir(path)

\* self.repo.git.check_ignore(rel_path): the query raises, or returns the
\* path when it is ignored and the empty string when it is not
check_ignore(rel_path) ==
  IF rel_path \in vcsRaises THEN [raised |-> TRUE, out |-> ""]
  ELSE IF rel_path \in vcsIgnored THEN [raised |-> FALSE, out |-> rel_path]
  ELSE [raised |-> FALSE, out |-> ""]

\* the try block failing closed: a failing query counts as ignored
TryCheckIgnore_closed(rel_path) ==
  LET r == check_ignore(rel_path)
  IN  IF r.raised THEN [done |-> TRUE, value |-> TRUE, raised |-> FALSE]
      ELSE [done |-> TRUE, value |-> r.out # "", raised |-> FALSE]

\* try: return check_ignore(rel_path) != ""  except: pass
\* done: the return statement was reached; raised: an exception left the block
TryCheckIgnore(rel_path) ==
  LET r == check_ignore(rel_path)
  IN  IF r.raised THEN [done |-> FALSE, value |-> FALSE, raised |-> FALSE]
      ELSE [done |-> TRUE, value |-> r.out # "", raised |-> FALSE]

\* _should_ignore(file_path): value is what it returns, raised whether an
\* exception leaves it
should_ignore(file_path) ==
  LET rel_path == relpath(file_path)
      asFile == TryCheckIgnore(rel_path)
      asDir  == TryCheckIgnore(rel_path)
  IN  IF MatchesPattern(rel_path) THEN [value |-> TRUE, raised |-> FALSE]
      ELSE IF exists(file_path) /\ ~isdir(file_path) /\ (asFile.done \/ asFile.raised)
        THEN [value |-> asFile.value, raised |-> asFile.raised]
      ELSE IF isdir(file_path) /\ (asDir.done \/ asDir.raised)
        THEN [value |-> asDir.value, raised |-> asDir.raised]
      ELSE [value |-> FALSE, raised |-> FALSE]

(***************************************************************************)
(* _collect_files: os.walk and the filter                                  *)
(***************************************************************************)
\* the entries os.walk finds in the directory top
SubDirsOf(top) == {d \in AbsDirs(tree) : dirname(d) = top}
FilesOf(top) == {f \in AbsFiles(tree) : dirname(f) = top}

\* the state pack() starts in
PackStart ==
  /\ pc = "walk"
  /\ walkStack = <<RootDir>>
  /\ all_files = <<>>
  /\ tested = {}
  /\ ignored = {}
  /\ visited = {}
  /\ file_paths = <<>>
  /\ dir_lines = <<>>
  /\ output = <<>>
  /\ idx = 0
  /\ result = ""
  /\ run = 1
  /\ first_result = ""
  /\ first_call = [dir_lines |-> <<>>, output |-> <<>>]

\* the working trees, on-disk kinds and version-control answers of the model
Inputs ==
  /\ tree \in SubsetsUpTo(Universe, MaxFiles)
  /\ kind \in {k \in [tree -> FileKinds] :
                 /\ Cardinality({f \in tree : k[f] # PlainFile}) <= MaxSpecialFiles
                 /\ RepomixIgnoreName \in tree => k[RepomixIgnoreName] = PlainFile}
  /\ vcsIgnored \in SubsetsUpTo(tree \cup DirsOf(tree), MaxVcsAnswers)
  /\ vcsRaises \in SubsetsUpTo((tree \cup DirsOf(tree)) \ vcsIgnored,
                                MaxVcsAnswers - Cardinality(vcsIgnored))
  /\ ignore_paths \in IgnorePathsChoices
  /\ repomixignore_patterns = parse_ignore_file(tree)

PackInit == Inputs /\ PackStart

\* the filter rebinding dirs instead of changing it in place: os.walk still
\* descends into every subdirectory
kept_dirs_all(dirs) == dirs

\* dirs[:] = [d for d in dirs if not self._should_ignore(os.path.join(root, d))]
kept_dirs(dirs) ==
  LET keepDir(d) == ~should_ignore(d).value
  IN  SelectSeq(dirs, keepDir)

\* the files of one directory that the loop over files appends to all_files
kept_files(files) ==
  LET keepFile(f) == ~should_ignore(f).value
  IN  SelectSeq(files, keepFile)

\* one iteration of the loop over os.walk: the directory at the head of the
\* stack is listed (in any order), its ignored subdirectories are dropped
\* from dirs, its files are tested and the survivors appended; os.walk then
\* descends into the subdirectories left, in the order of dirs
WalkStep ==
  /\ pc = "walk"
  /\ walkStack # <<>>
  /\ LET root == Head(walkStack)
     IN  \E dirs \in Orders(SubDirsOf(root)), files \in Orders(FilesOf(root)) :
           LET entries == Range(dirs) \cup Range(files)
               failed == \E p \in entries : should_ignore(p).raised
           IN  /\ tested' = tested \cup entries
               /\ ignored' = ignored \cup {p \in entries : should_ignore(p).value}
               /\ visited' = visited \cup {root}
               /\ IF failed
                    THEN /\ pc' = "raised"
                         /\ UNCHANGED <<walkStack, all_files>>
                    ELSE /\ pc' = "walk"
                         /\ walkStack' = kept_dirs(dirs) \o Tail(walkStack)
                         /\ all_files' = all_files \o kept_files(files)
  /\ UNCHANGED <<inputVars, file_paths, dir_lines, output, idx, result, run,
                 first_result, first_call, logVars>>

(***************************************************************************)
(* _generate_directory_structure.  dir_structure, a dict of dicts, is the  *)
(* set of its nodes, each the list of the path parts that lead to it; the  *)
(* keys of a node are kept in insertion order, as a dict keeps them.       *)
(***************************************************************************)
\* the glyphs of a tree line: the branch (U+251C U+2500 U+2500 and a
\* space), the corner (U+2514 U+2500 U+2500 and a space) and the
\* continuation (U+2502 and three spaces), in ASCII
BranchGlyph == "|-- "
CornerGlyph == "+-- "
PipeGlyph == "|   "
BlankGlyph == "    "

\* Dedup with the test 'part not in current' left out: every insertion adds
\* a key
Dedup_keep_all(xs) == xs

\* xs without the later occurrences of its elements: a part already in the
\* dict is not inserted again
RECURSIVE Dedup(_)
Dedup(xs) ==
  IF xs = <<>> THEN <<>>
  ELSE LET front == Dedup(SubSeq(xs, 1, Len(xs) - 1))
           last == xs[Len(xs)]
       IN  IF last \in Range(front) THEN front ELSE Append(front, last)

\* node.keys() of the node reached by the parts node, after the paths
\* splits (each a list of parts) were inserted in order
keys_of(splits, node) ==
  LET under(parts) == Len(parts) > Len(node) /\ SubSeq(parts, 1, Len(node)) = node
      below == SelectSeq(splits, under)
  IN  Dedup([i \in 1..Len(below) |-> below[i][Len(node) + 1]])

\* _build_tree(node, prefix): the lines it appends to result, each with the
\* node it shows and whether that node has no children
RECURSIVE build_tree(_, _, _)
RECURSIVE build_keys(_, _, _, _, _)
build_tree(splits, node, prefix) ==
  build_keys(splits, node, prefix, sorted(keys_of(splits, node)), 1)

build_keys(splits, node, prefix, keys, i) ==
  IF i > Len(keys) THEN <<>>
  ELSE LET key == keys[i]
           is_last_item == i = Len(keys)
           child == Append(node, key)
           has_children == keys_of(splits, child) # <<>>
           line == [text |-> prefix \o (IF is_last_item THEN CornerGlyph ELSE BranchGlyph) \o key,
                    node |-> child,
                    leaf |-> ~has_children]
           next_prefix == prefix \o (IF is_last_item THEN BlankGlyph ELSE PipeGlyph)
       IN  <<line>>
             \o (IF has_children THEN build_tree(splits, child, next_prefix) ELSE <<>>)
             \o build_keys(splits, node, prefix, keys, i + 1)

\* _generate_directory_structure(file_paths), before the final join
generate_directory_structure(fpaths) ==
  LET rel_paths == [i \in 1..Len(fpaths) |-> relpath(fpaths[i])]
      splits == [i \in 1..Len(fpaths) |-> Split(rel_paths[i], "/")]
  IN  build_tree(splits, <<>>, "")

\* the texts of a list of tree lines
LineTexts(lines) == [i \in 1..Len(lines) |-> lines[i].text]

(***************************************************************************)
(* _is_binary_file                                                         *)
(***************************************************************************)
UpperLetters == "ABCDEFGHIJKLMNOPQRSTUVWXYZ"
LowerLetters == "abcdefghijklmnopqrstuvwxyz"

\* str.lower()
RECURSIVE lower(_)
lower(s) ==
  IF s = "" THEN ""
  ELSE LET c == Char(s, 1)
           up == Positions(UpperLetters, c)
       IN  (IF up = {} THEN c ELSE Char(LowerLetters, MinOf(up)))
             \o lower(SubSeq(s, 2, Len(s)))

\* os.path.splitext(p)[1]: from the last dot of the last component, unless
\* only dots precede it there
splitext_ext(p) ==
  LET seps == Positions(p, "/")
      dots == Positions(p, ".")
      sepIndex == IF seps = {} THEN 0 ELSE MaxOf(seps)
      dotIndex == IF dots = {} THEN 0 ELSE MaxOf(dots)
  IN  IF dotIndex > sepIndex
           /\ \E k \in (sepIndex + 1)..(dotIndex - 1) : Char(p, k) # "."
        THEN SubSeq(p, dotIndex, Len(p))
        ELSE ""

\* splitext(p)[1].lower(), computed once for the files of the model
LowerExt == [p \in AbsFiles(Universe) |-> lower(splitext_ext(p))]

\* sniff with a chunk one byte short
sniff_short(file_path) ==
  LET k == kind[relpath(file_path)]
  IN  IF k.sniffFails THEN [raised |-> TRUE, value |-> FALSE]
      ELSE [raised |-> FALSE, value |-> k.nulAt >= 1 /\ k.nulAt < SniffBytes]

\* with open(file_path, "rb") as f: chunk = f.read(1024);
\* return b"\0" in chunk -- raised when the file cannot be opened or read
sniff(file_path) ==
  LET k == kind[relpath(file_path)]
  IN  IF k.sniffFails THEN [raised |-> TRUE, value |-> FALSE]
      ELSE [raised |-> FALSE, value |-> k.nulAt >= 1 /\ k.nulAt <= SniffBytes]

is_binary_file(file_path) ==
  IF LowerExt[file_path] \in binary_extensions THEN TRUE
  ELSE IF sniff(file_path).raised THEN TRUE
  ELSE sniff(file_path).value

(***************************************************************************)
(* pack                                                                    *)
(***************************************************************************)
\* the separator of the sections and the separator of a file entry
SectionSeparator ==
  "================================================================"
FileSeparator == "================"

\* output up to the line that names the caller's patterns
HeaderTop == <<
  "This file is a merged representation of a subset of the code"
    \o "base, containing files not matching ignore patterns, combine"
    \o "d into a single document by Repomix.",
  "",
  "================================================================",
  "File Summary",
  "================================================================",
  "",
  "Purpose:",
  "--------",
  "This file contains a packed representation of the entire rep"
    \o "ository's contents.",
  "It is designed to be easily consumable by AI systems for ana"
    \o "lysis, code review,",
  "or other automated processes.",
  "",
  "File Format:",
  "------------",
  "The content is organized as follows:",
  "1. This summary section",
  "2. Repository information",
  "3. Directory structure",
  "4. Multiple file entries, each consisting of:",
  "  a. A separator line (================)",
  "  b. The file path (File: path/to/file)",
  "  c. Another separator line",
  "  d. The full contents of the file",
  "  e. A blank line",
  "",
  "Usage Guidelines:",
  "-----------------",
  "- This file should be treated as read-only. Any changes shou"
    \o "ld be made to the",
  "  original repository files, not this packed version.",
  "- When processing this file, use the file path to distinguish",
  "  between different files in the repository.",
  "- Be aware that this file may contain sensitive information."
    \o " Handle it with",
  "  the same level of security as you would the original repository.",
  "",
  "Notes:",
  "------",
  "- Some files may have been excluded based on .gitignore rule"
    \o "s and Repomix's configuration",
  "- Binary files are not included in this packed representatio"
    \o "n. Please refer to the Repository Structure section for a co"
    \o "mplete list of file paths, including binary files"
>>

\* output from there to the directory structure
HeaderMiddle == <<
  "- Files matching patterns in .gitignore are excluded",
  "- Files matching default ignore patterns are excluded",
  "",
  "Additional Info:",
  "----------------",
  "",
  "================================================================",
  "Directory Structure",
  "================================================================"
>>

\* output from the directory structure to the loop over the files
HeaderBottom == <<
  "",
  "================================================================",
  "Files",
  "================================================================",
  ""
>>

\* output when the loop over file_paths starts
Header(structure) ==
  HeaderTop
    \o (IF ignore_paths # <<>>
          THEN <<"- Files matching these patterns are excluded: "
                   \o Join(ignore_paths, ", ")>>
          ELSE <<>>)
    \o HeaderMiddle \o <<structure>> \o HeaderBottom

\* with open(file_path, encoding="utf-8", errors="replace") as f: f.read()
read_text(file_path) ==
  IF kind[relpath(file_path)].readFails
    THEN [raised |-> TRUE, text |-> ReadErrorText(file_path)]
    ELSE [raised |-> FALSE, text |-> FileText(relpath(file_path))]

\* the loop body without the blank line that ends an entry
file_entry_no_blank(file_path) ==
  IF is_binary_file(file_path) THEN [lines |-> <<>>, raised |-> FALSE]
  ELSE [lines |-> <<FileSeparator,
                    "File: " \o relpath(file_path),
                    FileSeparator,
                    IF read_text(file_path).raised
                      THEN "Error reading file: " \o read_text(file_path).text
                      ELSE read_text(file_path).text>>,
        raised |-> FALSE]

\* the loop body without the except clause: a failing read leaves pack()
file_entry_unhandled(file_path) ==
  IF is_binary_file(file_path) THEN [lines |-> <<>>, raised |-> FALSE]
  ELSE IF read_text(file_path).raised
    THEN [lines |-> <<>>, raised |-> TRUE]
  ELSE [lines |-> <<FileSeparator,
                    "File: " \o relpath(file_path),
                    FileSeparator,
                    read_text(file_path).text,
                    "">>,
        raised |-> FALSE]

\* what one iteration of the loop over file_paths appends to output, and
\* whether an exception leaves it
file_entry(file_path) ==
  IF is_binary_file(file_path) THEN [lines |-> <<>>, raised |-> FALSE]
  ELSE [lines |-> <<FileSeparator,
                    "File: " \o relpath(file_path),
                    FileSeparator,
                    IF read_text(file_path).raised
                      THEN "Error reading file: " \o read_text(file_path).text
                      ELSE read_text(file_path).text,
                    "">>,
        raised |-> FALSE]

\* _collect_files returns sorted(all_files); pack renders the tree and
\* appends the banner, the summary, the tree and the title of the files
CollectDone ==
  /\ pc = "walk"
  /\ walkStack = <<>>
  /\ file_paths' = sorted(all_files)
  /\ dir_lines' = generate_directory_structure(file_paths')
  /\ output' = Header(Join(LineTexts(dir_lines'), "\n"))
  /\ idx' = 1
  /\ pc' = "files"
  /\ UNCHANGED <<inputVars, walkStack, all_files, tested, ignored, visited,
                 result, run, first_result, first_call, logVars>>

\* one iteration of the loop over file_paths
FileStep ==
  /\ pc = "files"
  /\ idx <= Len(file_paths)
  /\ LET entry == file_entry(file_paths[idx])
     IN  IF entry.raised
           THEN /\ pc' = "raised"
                /\ UNCHANGED <<output, idx>>
           ELSE /\ pc' = "files"
                /\ output' = output \o entry.lines
                /\ idx' = idx + 1
  /\ UNCHANGED <<inputVars, walkStack, all_files, tested, ignored, visited,
                 file_paths, dir_lines, result, run, first_result, first_call,
                 logVars>>

\* return "\n".join(output)
Return ==
  /\ pc = "files"
  /\ idx > Len(file_paths)
  /\ result' = Join(output, "\n")
  /\ pc' = "done"
  /\ UNCHANGED <<inputVars, walkStack, all_files, tested, ignored, visited,
                 file_paths, dir_lines, output, idx, run, first_result,
                 first_call, logVars>>

\* pack() is called again on the same packer and the same working tree
PackAgain ==
  /\ pc = "done"
  /\ run = 1
  /\ run' = 2
  /\ first_result' = result
  /\ first_call' = [dir_lines |-> dir_lines, output |-> output]
  /\ pc' = "walk"
  /\ walkStack' = <<RootDir>>
  /\ all_files' = <<>>
  /\ tested' = {}
  /\ ignored' = {}
  /\ visited' = {}
  /\ file_paths' = <<>>
  /\ dir_lines' = <<>>
  /\ output' = <<>>
  /\ idx' = 0
  /\ result' = ""
  /\ UNCHANGED <<inputVars, logVars>>

\* pack() is called on a new packer of the same working tree, when the
\* caller has added a pattern to ignore_paths or a line to the ignore file
\* that __init__ parses
PackMore ==
  /\ pc = "done"
  /\ run = 1
  /\ \E p \in MorePatterns :
       \/ /\ ignore_paths' = ignore_paths \o <<p>>
          /\ UNCHANGED repomixignore_patterns
       \/ /\ RepomixIgnoreName \in tree
          /\ repomixignore_patterns' = repomixignore_patterns \o <<p>>
          /\ UNCHANGED ignore_paths
  /\ run' = 2
  /\ first_result' = result
  /\ first_call' = [dir_lines |-> dir_lines, output |-> output]
  /\ pc' = "walk"
  /\ walkStack' = <<RootDir>>
  /\ all_files' = <<>>
  /\ tested' = {}
  /\ ignored' = {}
  /\ visited' = {}
  /\ file_paths' = <<>>
  /\ dir_lines' = <<>>
  /\ output' = <<>>
  /\ idx' = 0
  /\ result' = ""
  /\ UNCHANGED <<tree, kind, vcsIgnored, vcsRaises, logVars>>

(***************************************************************************)
(* Paths of pathlib, for get_repo and log: a Path is its root ("/" or "")  *)
(* and the list of its parts.                                              *)
(***************************************************************************)
\* Path(s): empty parts and "." parts are dropped, ".." is kept
Path(s) ==
  LET wanted(part) == part # "" /\ part # "."
  IN  [root |-> IF StartsWith(s, "/") THEN "/" ELSE "",
       parts |-> SelectSeq(Split(s, "/"), wanted)]

\* str(p)
str(p) ==
  IF p.parts = <<>> THEN (IF p.root = "" THEN "." ELSE p.root)
  ELSE p.root \o Join(p.parts, "/")

\* p.parent: the parent of the root, or of the empty path, is itself
parent(p) ==
  IF p.parts = <<>> THEN p
  ELSE [root |-> p.root, parts |-> SubSeq(p.parts, 1, Len(p.parts) - 1)]

\* p.absolute(), in the working directory d
absolute(p, d) ==
  IF p.root = "/" THEN p ELSE [root |-> "/", parts |-> d.parts \o p.parts]

\* the directories of the model
LogDirs ==
  {Path("/"), Path("/repo"), Path("/repo/root"), Path("/repo/root/some"),
   Path("/repo/root/some/subfolder"), Path("/repo/other")}

\* the path arguments of the model
PathArgs == {"./current/file.py", "../another/file.py", "test/file.py"}

\* the revision ranges of the model; NoRange is None
NoRange == "None"
RevisionRanges == {NoRange, "--", "HEAD~5..HEAD"}

\* the sequences over S of length at most n
SeqsUpTo(S, n) == UNION {[1..k -> S] : k \in 0..n}

\* no repository found yet
NoRepo == "none"

(***************************************************************************)
(* get_repo (git.py) and log (cli.py)                                      *)
(***************************************************************************)
LogInputs ==
  /\ cwd \in LogDirs
  /\ repos \in SubsetsUpTo(LogDirs, MaxRepos)
  /\ repo_path \in LogDirs
  /\ revision_range \in RevisionRanges
  /\ paths \in SeqsUpTo(PathArgs, MaxPaths)

\* log() has called get_repo(repo_path), which is at its loop
LogStart ==
  /\ pcLog = "get_repo"
  /\ current_path = absolute(repo_path, cwd)
  /\ repo = NoRepo
  /\ calls = <<>>

\* Repo(path) opens a repository, or raises
RepoOpens(path) == path \in repos

\* the test of the while loop of get_repo
loop_continues(path) == path # parent(path)

\* one iteration of the loop of get_repo: the repository at current_path is
\* returned, or Repo() raises and the search moves to the parent
GetRepoStep ==
  /\ pcLog = "get_repo"
  /\ loop_continues(current_path)
  /\ IF RepoOpens(current_path)
       THEN /\ repo' = current_path
            /\ pcLog' = "get_commits"
            /\ UNCHANGED current_path
       ELSE /\ current_path' = parent(current_path)
            /\ UNCHANGED <<repo, pcLog>>
  /\ UNCHANGED <<cwd, repos, repo_path, revision_range, paths, calls, packVars>>

\* the loop of get_repo ends: ValueError, which log() does not catch
GetRepoRaise ==
  /\ pcLog = "get_repo"
  /\ ~loop_continues(current_path)
  /\ pcLog' = "ValueError"
  /\ UNCHANGED <<cwd, repos, repo_path, revision_range, paths, current_path,
                 repo, calls, packVars>>

\* path_strs = [str(p) for p in paths] if paths else []
path_strs(ps) == [i \in 1..Len(ps) |-> str(Path(ps[i]))]

\* log(): a bare "--" is no revision range; get_commits is called with the
\* paths as strings
LogGetCommits ==
  /\ pcLog = "get_commits"
  /\ calls' = Append(calls,
                     [repo |-> repo,
                      revision_range |-> IF revision_range = "--" THEN NoRange
                                         ELSE revision_range,
                      paths |-> path_strs(paths)])
  /\ pcLog' = "write"
  /\ UNCHANGED <<cwd, repos, repo_path, revision_range, paths, current_path,
                 repo, packVars>>

\* write_commits_as_cxml consumes the commits: it ends, or git fails there
\* (GitCommandError), which log() prints before sys.exit(1)
LogWrite ==
  /\ pcLog = "write"
  /\ \E git_fails \in BOOLEAN : pcLog' = IF git_fails THEN "exit1" ELSE "done"
  /\ UNCHANGED <<cwd, repos, repo_path, revision_range, paths, current_path,
                 repo, calls, packVars>>

\* pack() is not running
PackIdle ==
  /\ tree = {}
  /\ kind = <<>>
  /\ vcsIgnored = {}
  /\ vcsRaises = {}
  /\ ignore_paths = <<>>
  /\ repomixignore_patterns = <<>>
  /\ PackStart

\* log() is not running
LogIdle ==
  /\ cwd = Path("/")
  /\ repos = {}
  /\ repo_path = Path("/")
  /\ revision_range = NoRange
  /\ paths = <<>>
  /\ pcLog = "idle"
  /\ current_path = Path("/")
  /\ repo = NoRepo
  /\ calls = <<>>

(***************************************************************************)
(* The specifications: one call of pack(), two calls of pack() on an       *)
(* unchanged tree, and one call of log().                                  *)
(***************************************************************************)
Init == PackInit /\ LogIdle
Next == WalkStep \/ CollectDone \/ FileStep \/ Return
Spec == Init /\ [][Next]_vars

NextTwice == Next \/ PackAgain
SpecTwice == Init /\ [][NextTwice]_vars

NextMore == Next \/ PackMore
SpecMore == Init /\ [][NextMore]_vars

InitLog == PackIdle /\ LogInputs /\ LogStart
NextLog == GetRepoStep \/ GetRepoRaise \/ LogGetCommits \/ LogWrite
SpecLog == InitLog /\ [][NextLog]_vars

(***************************************************************************)
(* What the output of pack() shows.                                        *)
(***************************************************************************)
\* the position in output of the title of the Files section
FilesTitleAt ==
  MaxOf({i \in 2..Len(output) : output[i] = "Files" /\ output[i - 1] = SectionSeparator})

\* the relative paths of the 'File: <path>' entries of the Files section,
\* in the order of the output
ListedFiles ==
  LET after(i) == i > FilesTitleAt /\ StartsWith(output[i], "File: ")
      at == {i \in 1..Len(output) : after(i)}
      lines == SelectSeq([i \in 1..Len(output) |-> IF i \in at THEN output[i] ELSE ""],
                         LAMBDA l : l # "")
  IN  [k \in 1..Len(lines) |-> SubSeq(lines[k], Len("File: ") + 1, Len(lines[k]))]

\* the relative paths of the leaves of the rendered tree, top to bottom
TreeLeaves ==
  LET leaves == SelectSeq(dir_lines, LAMBDA l : l.leaf)
  IN  [k \in 1..Len(leaves) |-> Join(leaves[k].node, "/")]

\* the relative paths of the nodes of the rendered tree
TreeNodes == {Join(dir_lines[i].node, "/") : i \in 1..Len(dir_lines)}

\* the relative paths of the collected files
Collected == {relpath(file_paths[i]) : i \in 1..Len(file_paths)}

\* the number of positions of the sequence xs that hold x
Count(xs, x) == Cardinality({i \in 1..Len(xs) : xs[i] = x})

\* what the file f is on disk makes _is_binary_file say binary: a known
\* binary extension, a NUL byte in its first SniffBytes bytes, or a failing
\* sniff
BinaryOnDisk(f) ==
  \/ LowerExt[PathJoin(RootDir, f)] \in binary_extensions
  \/ kind[f].nulAt >= 1 /\ kind[f].nulAt <= SniffBytes
  \/ kind[f].sniffFails

\* the file f lies under a directory named node_modules
UnderNodeModules(f) ==
  LET parts == Split(f, "/")
  IN  \E k \in 1..(Len(parts) - 1) : parts[k] = "node_modules"

(***************************************************************************)
(* The claims.                                                             *)
(***************************************************************************)
\* C1: when pack() has returned, the 'File:' entries are in ascending order
\* and in the order in which the same paths appear as leaves of the tree.
C1_FilesOrderIsTreeOrder ==
  pc = "done" =>
    /\ \A i, j \in 1..Len(ListedFiles) : i < j => StrLess(ListedFiles[i], ListedFiles[j])
    /\ SelectSeq(TreeLeaves, LAMBDA r : r \in Range(ListedFiles)) = ListedFiles

\* C2: a file under a directory named node_modules, at any depth, is never
\* collected, never a node of the tree and never a 'File:' entry, whatever
\* the version-control query answers.
C2_NodeModulesNeverAppears ==
  \A f \in tree :
    UnderNodeModules(f) =>
      /\ PathJoin(RootDir, f) \notin Range(all_files)
      /\ f \notin Collected
      /\ f \notin TreeNodes
      /\ pc = "done" => f \notin Range(ListedFiles)

\* C3: when pack() has returned, every listed path is exactly one leaf of
\* the tree, every leaf that is a non-binary file is listed exactly once,
\* and the leaves are the collected files.
C3_FilesAndLeavesAgree ==
  pc = "done" =>
    /\ \A r \in Range(ListedFiles) : Count(TreeLeaves, r) = 1
    /\ \A r \in Range(TreeLeaves) :
         r \in tree /\ ~BinaryOnDisk(r) => Count(ListedFiles, r) = 1
    /\ Range(TreeLeaves) = Collected
    /\ Len(TreeLeaves) = Len(file_paths)

\* C3 witness: pack() returned a document with two entries and two files
\* in one directory of the tree.
C3_Witness ==
  /\ pc = "done"
  /\ Len(ListedFiles) >= 2
  /\ {"a/b.png", "a/y.md"} \subseteq Range(TreeLeaves)

\* C4: when pack() has returned, a collected file that is binary on disk
\* has no 'File:' entry and nothing of it in the Files section, and is a
\* leaf of the tree.
C4_BinaryOnlyInTree ==
  pc = "done" =>
    \A f \in Collected :
      BinaryOnDisk(f) =>
        /\ f \notin Range(ListedFiles)
        /\ \A i \in FilesTitleAt..Len(output) :
             /\ output[i] # FileText(f)
             /\ output[i] # "Error reading file: " \o ReadErrorText(PathJoin(RootDir, f))
        /\ f \in Range(TreeLeaves)

\* C4 witness: pack() returned, and a collected file has a NUL byte as the
\* last byte of the sniffed chunk, next to a file that is listed.
C4_Witness ==
  /\ pc = "done"
  /\ \E f \in Collected : kind[f].nulAt = SniffBytes /\ f \in Range(TreeLeaves)
  /\ Len(ListedFiles) >= 1

\* C5: the second pack() on the unchanged tree returns the string the
\* first returned, whatever order the two walks listed the entries in.
C5_SecondPackIdentical ==
  pc = "done" /\ run = 2 => result = first_result

\* C5 witness: the second pack() returned after a walk that listed at least
\* two collected files in an order that is not the sorted one.
C5_Witness ==
  /\ pc = "done"
  /\ run = 2
  /\ Len(file_paths) >= 2
  /\ all_files # file_paths

\* C6: a path that matches no pattern and whose version-control query
\* raises is not ignored (a file among them is collected), and no
\* exception leaves pack().
C6_VcsFailureFailsOpen ==
  /\ pc # "raised"
  /\ \A p \in tested :
       relpath(p) \in vcsRaises /\ ~MatchesPattern(relpath(p)) =>
         /\ p \notin ignored
         /\ p \in AbsFiles(tree) => p \in Range(all_files)

\* C6 witness: pack() returned with an entry for a file whose query raised.
C6_Witness ==
  /\ pc = "done"
  /\ \E f \in tree :
       /\ f \in vcsRaises
       /\ PathJoin(RootDir, f) \in tested
       /\ f \in Range(ListedFiles)

\* C7: nothing below a directory that _should_ignore is true for is
\* tested, walked or collected, and the directory is no node of the tree.
C7_IgnoredDirsArePruned ==
  \A d \in ignored :
    isdir(d) =>
      /\ d \notin visited
      /\ \A p \in tested \cup visited : ~Below(p, d)
      /\ \A p \in Range(all_files) \cup Range(file_paths) : ~Below(p, d)
      /\ relpath(d) \notin TreeNodes

\* C7 witness: pack() returned after pruning a directory that holds a file
\* which nothing else would have ignored.
C7_Witness ==
  /\ pc = "done"
  /\ \E d \in ignored :
       /\ isdir(d)
       /\ \E f \in tree :
            /\ Below(PathJoin(RootDir, f), d)
            /\ ~MatchesPattern(f)
            /\ f \notin vcsIgnored

\* a line of n '=' characters
RECURSIVE Equals(_)
Equals(n) == IF n = 0 THEN "" ELSE "=" \o Equals(n - 1)

\* the elements of the set S of strings in ascending order
Ascending(S) ==
  CHOOSE o \in Orders(S) : \A i, j \in 1..Cardinality(S) : i < j => StrLess(o[i], o[j])

\* the entry of the file f with separator lines sep: the separator, the
\* path, the separator, the text or the error marker, a blank line
EntryOf(f, sep) ==
  <<sep,
    "File: " \o f,
    sep,
    IF kind[f].readFails
      THEN "Error reading file: " \o ReadErrorText(PathJoin(RootDir, f))
      ELSE FileText(f),
    "">>

RECURSIVE EntriesOf(_, _)
EntriesOf(fs, sep) ==
  IF fs = <<>> THEN <<>> ELSE EntryOf(fs[1], sep) \o EntriesOf(Tail(fs), sep)

\* the title line is in output between two lines of 64 '=' characters
SectionTitled(title) ==
  \E i \in 2..(Len(output) - 1) :
    output[i] = title /\ output[i - 1] = Equals(64) /\ output[i + 1] = Equals(64)

\* output ends with the entries, with separator lines sep, of the collected
\* files that are not binary, in ascending order, after the title of the
\* Files section, its separator and a blank line
FilesBlockIs(sep) ==
  LET entries == EntriesOf(Ascending({f \in Collected : ~BinaryOnDisk(f)}), sep)
      start == Len(output) - Len(entries)
  IN  /\ start >= 3
      /\ SubSeq(output, start + 1, Len(output)) = entries
      /\ output[start] = ""
      /\ output[start - 1] = Equals(64)
      /\ output[start - 2] = "Files"

\* C8 as claimed: the entries have separator lines of eight '=' characters.
C8_EightEquals ==
  pc = "done" =>
    /\ FilesBlockIs(Equals(8))
    /\ SectionTitled("File Summary")
    /\ SectionTitled("Directory Structure")
    /\ SectionTitled("Files")

\* C8 as amended: the entries have separator lines of sixteen '='
\* characters; the section separators are lines of 64.
C8_SixteenEquals ==
  pc = "done" =>
    /\ FilesBlockIs(Equals(16))
    /\ SectionTitled("File Summary")
    /\ SectionTitled("Directory Structure")
    /\ SectionTitled("Files")

\* C8 witness: pack() returned two entries, one of them with the error
\* marker for its content.
C8_Witness ==
  /\ pc = "done"
  /\ Len(ListedFiles) >= 2
  /\ \E f \in Collected : kind[f].readFails /\ f \in Range(ListedFiles)

\* the directory d is the directory a or a directory below it
AtOrBelow(d, a) ==
  Len(d.parts) >= Len(a.parts) /\ SubSeq(d.parts, 1, Len(a.parts)) = a.parts

\* the directories at or above the directory d, the root included
AtOrAbove(d) == {a \in LogDirs : AtOrBelow(d, a)}

\* the path argument s made relative to the root w of the working tree,
\* when log() runs in the directory d below w: the path of d relative to
\* w, then the parts of s, '..' left as it is
Adjusted(s, d, w) ==
  Join(SubSeq(d.parts, Len(w.parts) + 1, Len(d.parts)) \o Path(s).parts, "/")

\* C9: once log() has called get_commits from a directory below the root
\* of the working tree, it has called it once, with every path argument
\* made relative to that root.
C9_PathsAdjustedToRepoRoot ==
  pcLog \in {"write", "done", "exit1"} /\ AtOrBelow(cwd, repo) /\ cwd # repo =>
    /\ Len(calls) = 1
    /\ Len(calls[1].paths) = Len(paths)
    /\ \A k \in 1..Len(paths) : calls[1].paths[k] = Adjusted(paths[k], cwd, repo)

\* C10: get_repo returns the repository of the first directory at or above
\* the start path, the root included, that holds one, and raises
\* ValueError only when none does.
C10_GetRepoFindsFirstRepo ==
  LET start == absolute(repo_path, cwd)
      holding == {a \in AtOrAbove(start) : RepoOpens(a)}
  IN  /\ pcLog = "ValueError" => holding = {}
      /\ pcLog \notin {"get_repo", "ValueError"} =>
           /\ repo \in holding
           /\ \A a \in holding : Len(a.parts) <= Len(repo.parts)

\* the patterns of the three sources
PatternsOfAllSources ==
  Range(default_ignore_patterns) \cup Range(repomixignore_patterns)
    \cup Range(ignore_paths)

\* one pattern of one source matches the relative path r
MatchedBySomePattern(r) == \E pat \in PatternsOfAllSources : fnmatch(r, pat)

\* whether the string s ends with the string t
EndsWith(s, t) ==
  Len(s) >= Len(t) /\ SubSeq(s, Len(s) - Len(t) + 1, Len(s)) = t

\* the relative path r is nowhere in what pack() has built so far
Absent(r) ==
  /\ r \notin Collected
  /\ r \notin TreeNodes
  /\ pc = "done" => r \notin Range(ListedFiles)

\* the nodes of the tree and the 'File:' entries of the first pack() call
FirstTreeNodes ==
  {Join(first_call.dir_lines[i].node, "/") : i \in 1..Len(first_call.dir_lines)}
FirstListedFiles ==
  LET out == first_call.output
      title == MaxOf({i \in 2..Len(out) :
                        out[i] = "Files" /\ out[i - 1] = SectionSeparator})
  IN  {SubSeq(out[i], Len("File: ") + 1, Len(out[i])) :
         i \in {j \in 1..Len(out) : j > title /\ StartsWith(out[j], "File: ")}}

\* C11: a path that one pattern of any source matches is ignored when
\* _should_ignore is asked about it, whatever the other patterns and the
\* version-control query say, and a file so matched is in neither the tree
\* nor the Files section; with the override '*.md' no file ending in .md
\* is in either, at any depth; and a packer given one more pattern shows
\* no tree node and no 'File:' entry that the packer before it did not.
C11_IgnoreIsMonotonic ==
  /\ \A p \in tested : MatchedBySomePattern(relpath(p)) => p \in ignored
  /\ \A f \in tree : MatchedBySomePattern(f) => Absent(f)
  /\ "*.md" \in Range(ignore_paths) =>
       \A f \in tree : EndsWith(f, ".md") => Absent(f)
  /\ pc = "done" /\ run = 2 =>
       /\ TreeNodes \subseteq FirstTreeNodes
       /\ Range(ListedFiles) \subseteq FirstListedFiles

\* C11 witness: the second packer returned; the pattern it was given on
\* top of '*.md' removed a file the first packer listed, a Markdown file
\* lies in a subdirectory, and the version-control query fails for a file
\* that a pattern matches.
C11_Witness ==
  /\ pc = "done"
  /\ run = 2
  /\ "*.md" \in Range(ignore_paths)
  /\ "a/y.md" \in tree
  /\ FirstListedFiles \ Range(ListedFiles) # {}
  /\ \E f \in vcsRaises : MatchedBySomePattern(f)

\* the pattern is text, one star, text: no other star, no question mark and
\* no bracket
OneStar(pat) ==
  /\ Cardinality(Positions(pat, "*")) = 1
  /\ Positions(pat, "?") = {}
  /\ Positions(pat, "[") = {}

\* the text before and the text after the star of such a pattern
BeforeStar(pat) == SubSeq(pat, 1, MinOf(Positions(pat, "*")) - 1)
AfterStar(pat) == SubSeq(pat, MinOf(Positions(pat, "*")) + 1, Len(pat))

\* the relative path r is the text before the star, any run of characters,
\* and the text after the star
Fits(r, pat) ==
  /\ Len(r) >= Len(BeforeStar(pat)) + Len(AfterStar(pat))
  /\ StartsWith(r, BeforeStar(pat))
  /\ EndsWith(r, AfterStar(pat))

\* the patterns of the model of that shape, and the paths each fits,
\* computed once
OneStarPatterns == {pat \in AllPatterns : OneStar(pat)}
FitsTable ==
  [pat \in OneStarPatterns |-> {r \in AllRelPaths : Fits(r, pat)}]

\* the run of characters of r that the star of pat stands for
StarRun(r, pat) ==
  SubSeq(r, Len(BeforeStar(pat)) + 1, Len(r) - Len(AfterStar(pat)))

\* C12, as the claim states it: whenever the fnmatch call of _should_ignore
\* matches a tested path against a pattern, the pattern also matches it
\* with every star kept within one path segment.
C12_StarWithinSegment ==
  \A p \in tested :
    \A pat \in PatternsOfAllSources :
      fnmatch(relpath(p), pat) => SegmentMatch(relpath(p), pat, 1, 1)

\* C12, amended: a pattern that is text, one star, text matches every path
\* that starts with the one text and ends with the other, whether or not
\* the run between them holds a path separator, and _should_ignore returns
\* True for such a path.
C12_StarCrossesSeparators ==
  \A pat \in PatternsOfAllSources \cap OneStarPatterns :
    /\ \A r \in tree \cup DirsOf(tree) : r \in FitsTable[pat] => fnmatch(r, pat)
    /\ \A p \in tested : relpath(p) \in FitsTable[pat] => p \in ignored

\* C12 witness: _should_ignore returned True for a/y.md, which of all the
\* patterns only the override '*.md' matches, the star standing for a run
\* that holds a separator.
C12_Witness ==
  /\ ignore_paths = <<"*.md">>
  /\ PathJoin(RootDir, "a/y.md") \in ignored
  /\ vcsIgnored = {}
  /\ Positions(StarRun("a/y.md", "*.md"), "/") # {}
  /\ \A pat \in PatternsOfAllSources \ {"*.md"} : ~fnmatch("a/y.md", pat)

\* the positions of output, after the title of the Files section, of the
\* line 'File: f'
HeaderAt(f) ==
  {i \in (FilesTitleAt + 1)..Len(output) : output[i] = "File: " \o f}

\* the marker that stands for the content of the file f when reading it
\* fails
ErrorMarker(f) ==
  "Error reading file: " \o ReadErrorText(PathJoin(RootDir, f))

\* C13: no exception leaves pack(); when it has returned, a collected file
\* that was classified non-binary and whose read then fails has its header
\* once, followed by the line 'Error reading file: <message>' and a blank
\* line, and its content nowhere; every collected non-binary file, the ones
\* after it included, has its entry; the string returned is the whole of
\* output; and a file whose sniff fails is a leaf of the tree without an
\* entry.
C13_ReadFailureIsInline ==
  /\ pc # "raised"
  /\ pc = "done" =>
       /\ \A f \in Collected :
            ~BinaryOnDisk(f) /\ kind[f].readFails =>
              /\ Cardinality(HeaderAt(f)) = 1
              /\ \A i \in HeaderAt(f) :
                   /\ i + 3 <= Len(output)
                   /\ output[i - 1] = FileSeparator
                   /\ output[i + 1] = FileSeparator
                   /\ output[i + 2] = ErrorMarker(f)
                   /\ output[i + 3] = ""
              /\ \A i \in FilesTitleAt..Len(output) : output[i] # FileText(f)
       /\ \A f \in Collected :
            ~BinaryOnDisk(f) =>
              /\ Cardinality(HeaderAt(f)) = 1
              /\ ~kind[f].readFails =>
                   \A i \in HeaderAt(f) :
                     i + 2 <= Len(output) /\ output[i + 2] = FileText(f)
       /\ result = Join(output, "\n")
       /\ \A f \in Collected :
            kind[f].sniffFails =>
              /\ HeaderAt(f) = {}
              /\ f \in Range(TreeLeaves)
              /\ \A i \in FilesTitleAt..Len(output) : output[i] # ErrorMarker(f)

\* C13 witness: pack() returned; a file that was sniffed as text and whose
\* read failed has the error marker, and a file later in the order has its
\* entry with its content after it.
C13_Witness ==
  /\ pc = "done"
  /\ \E f, g \in Collected :
       /\ kind[f].readFails
       /\ ~kind[f].sniffFails
       /\ ~BinaryOnDisk(f)
       /\ ~BinaryOnDisk(g)
       /\ StrLess(f, g)
       /\ \E i \in HeaderAt(f), j \in HeaderAt(g) :
            /\ i < j
            /\ output[i + 2] = ErrorMarker(f)
            /\ output[j + 2] = FileText(g)

=============================================================================
